---- MODULE Spec2Model ----
(***************************************************************************)
(* State-machine model of the choir stage-placement component (App.tsx).   *)
(*                                                                         *)
(* The component keeps four pieces of React state: layoutMode, counts      *)
(* (four count texts), rowCount and rows (the Grid).  generateMembers      *)
(* (Regenerate) builds a roster from the counts, distributes it over       *)
(* rowCount rows under the placement policy, pads the rows to equal        *)
(* length and publishes the result with setRows.  moveMember (Swap)        *)
(* publishes a copy of the Grid in which two addressed slots are           *)
(* exchanged.  moveMember is modelled at its own interface, for any two    *)
(* addresses; the drop handler that calls it only narrows those inputs to  *)
(* two different rendered slots.  An exception thrown by a handler or by   *)
(* the updater leaves the four pieces of state as they were and is         *)
(* recorded in the event record `last`.                                    *)
(*                                                                         *)
(* Two specifications.  Spec takes each event as one step.  StepSpec runs  *)
(* the two Grid-writing handlers line by line, with the handler's private  *)
(* newRows in `work`, to show what is visible in `rows` while a handler is *)
(* running.                                                                *)
(*                                                                         *)
(* Conventions.  Source indices are 0-based; TLA+ sequences are 1-based,   *)
(* so the source's a[i] is a[i + 1] here.  A text is a sequence of         *)
(* one-character strings.  A slot value is a record: a member record       *)
(* (kind "member"), Null (the source's null) or Undef (the source's        *)
(* undefined, which is what a read outside an array yields and what a      *)
(* hole left by a write beyond the end of an array reads as).              *)
(***************************************************************************)
EXTENDS Integers, Sequences, FiniteSets, TLC

VARIABLES
    layoutMode,    \* App.tsx:102  placement policy
    counts,        \* App.tsx:103  count text per part
    rowCount,      \* App.tsx:110  configured number of rows
    rows,          \* App.tsx:111  the Grid: a sequence of rows of slot values
    build,         \* number of generateMembers calls so far (uuidv4 epoch)
    roster,        \* members created by the most recent generateMembers call
    last,          \* the most recent event and how it ended
    swapsInRange,  \* TRUE while every moveMember call so far was in range
    steps,         \* number of events so far
    pc,            \* the line the running handler is at, "idle" between events
    work,          \* newRows of the running handler (App.tsx:135, 177)
    call           \* arguments and locals of the running moveMember updater

vars == <<layoutMode, counts, rowCount, rows, build, roster, last,
          swapsInRange, steps, pc, work, call>>

(***************************************************************************)
(* Bounds of the exploration.                                              *)
(***************************************************************************)
MaxSteps == 3      \* events explored in one run of the component
MaxStepEvents == 2 \* events explored when handlers run line by line
MaxArg == 1        \* largest row index handed to moveMember
FarSlot == 14      \* the far slot index handed to moveMember: outside a Grid
                   \* of up to FarSlot columns, inside a wider one
MaxRowText == 4    \* largest numeral typed into the row-count input

(***************************************************************************)
(* Fixed vocabulary of the component.                                      *)
(***************************************************************************)
parts == <<"Soprano", "Alto", "Tenor", "Bass">>

Part == {parts[i] : i \in 1..Len(parts)}

LayoutModes == {"auto", "condition1", "condition2"}

Null == [kind |-> "null"]

Undef == [kind |-> "undefined"]

IsMember(v) == v.kind = "member"

(***************************************************************************)
(* Texts and parseInt.                                                     *)
(***************************************************************************)
DigitChars == {"0", "1", "2", "3", "4", "5", "6", "7", "8", "9"}

DigitValue(c) ==
    CASE c = "0" -> 0 [] c = "1" -> 1 [] c = "2" -> 2 [] c = "3" -> 3
      [] c = "4" -> 4 [] c = "5" -> 5 [] c = "6" -> 6 [] c = "7" -> 7
      [] c = "8" -> 8 [] c = "9" -> 9

RECURSIVE SkipWhite(_)
SkipWhite(s) ==
    IF s # <<>> /\ Head(s) = " " THEN SkipWhite(Tail(s)) ELSE s

RECURSIVE DigitPrefix(_)
DigitPrefix(s) ==
    IF s # <<>> /\ Head(s) \in DigitChars
    THEN <<Head(s)>> \o DigitPrefix(Tail(s))
    ELSE <<>>

RECURSIVE DigitsValue(_, _)
DigitsValue(s, acc) ==
    IF s = <<>> THEN acc ELSE DigitsValue(Tail(s), 10 * acc + DigitValue(Head(s)))

\* parseInt(text) in radix 10: leading white space is skipped, one sign is
\* accepted, the longest digit prefix is read and the rest is ignored; with
\* no digit the result is NaN.  (No modelled text starts with "0x".)
parseInt(s) ==
    LET t == SkipWhite(s)
        signed == t # <<>> /\ Head(t) \in {"-", "+"}
        neg == t # <<>> /\ Head(t) = "-"
        u == IF signed THEN Tail(t) ELSE t
        d == DigitPrefix(u)
    IN  IF d = <<>>
        THEN [nan |-> TRUE, val |-> 0]
        ELSE [nan |-> FALSE,
              val |-> IF neg THEN 0 - DigitsValue(d, 0) ELSE DigitsValue(d, 0)]

\* p || dflt : NaN and 0 are falsy.
OrElse(p, dflt) == IF p.nan \/ p.val = 0 THEN dflt ELSE p.val

\* Array.from({ length: n }) builds ToLength(n) elements: a negative n gives none.
ToLength(n) == IF n < 0 THEN 0 ELSE n

MathMax(a, b) == IF a >= b THEN a ELSE b

\* parseInt(counts.X) || 0, as the length Array.from acts on.
CountOf(text) == ToLength(OrElse(parseInt(text), 0))

InitialCounts ==
    [p \in Part |->
        CASE p = "Soprano" -> <<"9">>
          [] p = "Alto" -> <<"1", "0">>
          [] p = "Tenor" -> <<"5">>
          [] p = "Bass" -> <<"5">>]

(***************************************************************************)
(* generateMembers: roster, distribution, balancing.                       *)
(***************************************************************************)
\* uuidv4(): the k-th identifier drawn during the epoch-th generateMembers
\* call; identifiers of different calls, and of different draws, differ.
uuidv4(epoch, k) == <<epoch, k>>

\* Mutant of MakeMembers: the labels are numbered from 1.
MakeMembersFromOne(part, initial, n, first, epoch) ==
    [j \in 1..n |->
        [kind |-> "member",
         id |-> <<epoch, first + j - 1>>,
         name |-> <<initial, j>>,
         part |-> part]]

\* Array.from({ length: n }, (_, i) => ({ id: uuidv4(), name: `X${i}`, part })),
\* where `first` identifiers were drawn earlier in the same call.
MakeMembers(part, initial, n, first, epoch) ==
    [j \in 1..n |->
        [kind |-> "member",
         id |-> uuidv4(epoch, first + j - 1),
         name |-> <<initial, j - 1>>,
         part |-> part]]

soprano(cnts, epoch) ==
    MakeMembers("Soprano", "S", CountOf(cnts["Soprano"]), 0, epoch)

alto(cnts, epoch) ==
    MakeMembers("Alto", "A", CountOf(cnts["Alto"]),
                CountOf(cnts["Soprano"]), epoch)

tenor(cnts, epoch) ==
    MakeMembers("Tenor", "T", CountOf(cnts["Tenor"]),
                CountOf(cnts["Soprano"]) + CountOf(cnts["Alto"]), epoch)

bass(cnts, epoch) ==
    MakeMembers("Bass", "B", CountOf(cnts["Bass"]),
                CountOf(cnts["Soprano"]) + CountOf(cnts["Alto"])
                    + CountOf(cnts["Tenor"]), epoch)

\* The four sequences of one call, in creation order.
BuildRoster(cnts, epoch) ==
    soprano(cnts, epoch) \o alto(cnts, epoch) \o tenor(cnts, epoch)
        \o bass(cnts, epoch)

\* Array.from({ length: rowCount }, () => [])
EmptyRows(R) == [r \in 1..R |-> <<>>]

\* The loop of flatInsert from member number i on.  newRows[row] of a row
\* that does not exist is undefined, and calling push on it throws a
\* TypeError: the result then has ok = FALSE.
RECURSIVE flatInsertFrom(_, _, _, _)
flatInsertFrom(newRows, members, targetRows, i) ==
    IF i > Len(members)
    THEN [ok |-> TRUE, rows |-> newRows]
    ELSE LET row == targetRows[((i - 1) % Len(targetRows)) + 1]
         IN  IF row \notin 0..(Len(newRows) - 1)
             THEN [ok |-> FALSE, rows |-> newRows]
             ELSE flatInsertFrom(
                      [newRows EXCEPT ![row + 1] = Append(@, members[i])],
                      members, targetRows, i + 1)

\* Mutant of flatInsert: the round-robin starts at the second target row.
flatInsertShifted(newRows, members, targetRows) ==
    flatInsertFrom(newRows, members, Tail(targetRows) \o <<Head(targetRows)>>, 1)

flatInsert(newRows, members, targetRows) ==
    flatInsertFrom(newRows, members, targetRows, 1)

\* Mutant of Distribute: the low voices are handed over as basses, then
\* tenors.
DistributeBassFirst(cnts, R, mode, epoch) ==
    LET S == soprano(cnts, epoch)
        A == alto(cnts, epoch)
        T == tenor(cnts, epoch)
        B == bass(cnts, epoch)
    IN  IF mode = "condition1"
        THEN LET first == flatInsert(EmptyRows(R), S \o A, <<0, 1>>)
             IN  IF first.ok THEN flatInsert(first.rows, B \o T, <<2>>)
                 ELSE first
        ELSE IF mode = "condition2"
        THEN LET first == flatInsert(EmptyRows(R), S \o A, <<0, 1, 2>>)
             IN  IF first.ok THEN flatInsert(first.rows, B \o T, <<3>>)
                 ELSE first
        ELSE flatInsert(EmptyRows(R), S \o A \o B \o T, [r \in 1..R |-> r - 1])

\* The if / else-if / else of generateMembers: the raw (pre-balancing) rows.
Distribute(cnts, R, mode, epoch) ==
    LET S == soprano(cnts, epoch)
        A == alto(cnts, epoch)
        T == tenor(cnts, epoch)
        B == bass(cnts, epoch)
    IN  IF mode = "condition1"
        THEN LET first == flatInsert(EmptyRows(R), S \o A, <<0, 1>>)
             IN  IF first.ok THEN flatInsert(first.rows, T \o B, <<2>>)
                 ELSE first
        ELSE IF mode = "condition2"
        THEN LET first == flatInsert(EmptyRows(R), S \o A, <<0, 1, 2>>)
             IN  IF first.ok THEN flatInsert(first.rows, T \o B, <<3>>)
                 ELSE first
        ELSE flatInsert(EmptyRows(R), S \o A \o T \o B, [r \in 1..R |-> r - 1])

RECURSIVE MaxLen(_, _)
MaxLen(newRows, r) ==
    IF r > Len(newRows) THEN 0
    ELSE IF r = Len(newRows) THEN Len(newRows[r])
    ELSE MathMax(Len(newRows[r]), MaxLen(newRows, r + 1))

\* Math.max(...newRows.map((r) => r.length)), for at least one row.
maxLength(newRows) == MaxLen(newRows, 1)

Nulls(n) == [j \in 1..n |-> Null]

\* Mutant of padLeft: the odd slot of the difference goes to the left.
padLeftCeil(diff) == (diff + 1) \div 2

padLeft(diff) == diff \div 2

\* Mutant of padRight: the remainder of an odd diff is dropped.
padRightFloor(diff) == diff \div 2

padRight(diff) == diff - padLeft(diff)

\* Mutant of balanceRow: the row is trimmed one slot short of maxLength.
balanceRowTrimShort(row, maxLen) ==
    LET keep == IF Len(row) < maxLen - 1 THEN Len(row) ELSE maxLen - 1
        trimmed == SubSeq(row, 1, IF keep < 0 THEN 0 ELSE keep)
        diff == maxLen - Len(trimmed)
    IN  Nulls(padLeft(diff)) \o trimmed \o Nulls(padRight(diff))

\* The body of newRows.map((row, idx) => ...) for one row.
balanceRow(row, maxLen) ==
    LET trimmed == SubSeq(row, 1, IF Len(row) < maxLen THEN Len(row) ELSE maxLen)
        diff == maxLen - Len(trimmed)
    IN  Nulls(padLeft(diff)) \o trimmed \o Nulls(padRight(diff))

balancedRows(newRows) ==
    [r \in 1..Len(newRows) |-> balanceRow(newRows[r], maxLength(newRows))]

\* What one generateMembers call computes from the configuration: whether it
\* reaches setRows, and the Grid it hands to it.
Generate(cnts, R, mode, epoch) ==
    LET raw == Distribute(cnts, R, mode, epoch)
    IN  [ok |-> raw.ok,
         rows |-> IF raw.ok THEN balancedRows(raw.rows) ELSE <<>>]

(***************************************************************************)
(* moveMember: the updater handed to setRows.                              *)
(***************************************************************************)
\* a[idx] read from an array: outside 0..length-1 the read yields undefined.
ArrayGet(a, idx) == IF idx \in 0..(Len(a) - 1) THEN a[idx + 1] ELSE Undef

\* Mutant of ArraySet: the value is inserted before a[idx] (a splice) instead
\* of replacing it.
ArraySetInsert(a, idx, v) ==
    IF idx < 0 THEN a
    ELSE IF idx < Len(a)
    THEN SubSeq(a, 1, idx) \o <<v>> \o SubSeq(a, idx + 1, Len(a))
    ELSE a \o [j \in 1..(idx - Len(a)) |-> Undef] \o <<v>>

\* a[idx] = v on an array: inside the array the element is replaced; at or
\* beyond the end the array grows to idx + 1 elements, the ones in between
\* reading as undefined; a negative idx sets a property that is no element
\* (and that the next [...row] copy drops), so the elements stay as they are.
ArraySet(a, idx, v) ==
    IF idx < 0 THEN a
    ELSE IF idx < Len(a) THEN [a EXCEPT ![idx + 1] = v]
    ELSE a \o [j \in 1..(idx - Len(a)) |-> Undef] \o <<v>>

HasRow(grid, r) == r \in 0..(Len(grid) - 1)

\* Mutant of moveMemberUpdate: the destination is written with the value
\* read back from the origin after the origin was overwritten (an exchange
\* without the temporary), so the destination keeps its own content.
moveMemberUpdateNoTemp(prev, fromRow, fromIndex, toRow, toIndex) ==
    IF ~HasRow(prev, fromRow) \/ ~HasRow(prev, toRow)
    THEN [ok |-> FALSE, rows |-> prev]
    ELSE LET toMember == ArrayGet(prev[toRow + 1], toIndex)
             afterFrom == [prev EXCEPT
                              ![fromRow + 1] = ArraySet(@, fromIndex, toMember)]
             reread == ArrayGet(afterFrom[fromRow + 1], fromIndex)
             afterTo == [afterFrom EXCEPT
                              ![toRow + 1] = ArraySet(@, toIndex, reread)]
         IN  [ok |-> TRUE, rows |-> afterTo]

\* Mutant of moveMemberUpdate: a move instead of an exchange; the origin is
\* cleared after the destination is written.
moveMemberUpdateMove(prev, fromRow, fromIndex, toRow, toIndex) ==
    IF ~HasRow(prev, fromRow) \/ ~HasRow(prev, toRow)
    THEN [ok |-> FALSE, rows |-> prev]
    ELSE LET fromMember == ArrayGet(prev[fromRow + 1], fromIndex)
             afterTo == [prev EXCEPT
                              ![toRow + 1] = ArraySet(@, toIndex, fromMember)]
             afterFrom == [afterTo EXCEPT
                              ![fromRow + 1] = ArraySet(@, fromIndex, Null)]
         IN  [ok |-> TRUE, rows |-> afterFrom]

\* (prev) => { ... } of moveMember.  Reading [fromIndex] or [toIndex] of a row
\* that does not exist throws a TypeError before anything is written: ok is
\* then FALSE and no new Grid is returned.
moveMemberUpdate(prev, fromRow, fromIndex, toRow, toIndex) ==
    IF ~HasRow(prev, fromRow) \/ ~HasRow(prev, toRow)
    THEN [ok |-> FALSE, rows |-> prev]
    ELSE LET newRows == prev
             fromMember == ArrayGet(newRows[fromRow + 1], fromIndex)
             toMember == ArrayGet(newRows[toRow + 1], toIndex)
             afterFrom == [newRows EXCEPT
                              ![fromRow + 1] = ArraySet(@, fromIndex, toMember)]
             afterTo == [afterFrom EXCEPT
                              ![toRow + 1] = ArraySet(@, toIndex, fromMember)]
         IN  [ok |-> TRUE, rows |-> afterTo]

\* An address (row, index) names an existing slot of the Grid.
InRange(grid, r, i) == HasRow(grid, r) /\ i \in 0..(Len(grid[r + 1]) - 1)

(***************************************************************************)
(* Inputs of the events.                                                   *)
(***************************************************************************)
\* Texts typed into a count input.
CountTexts == {<<>>, <<"2">>, <<"-", "1">>, <<"1", ".", "5">>}

DigitOf(n) == CHOOSE c \in DigitChars : DigitValue(c) = n

\* Texts typed into the row-count input.
RowTexts == {<<DigitOf(n)>> : n \in 0..MaxRowText} \cup {<<>>, <<"-", "2">>}

\* Addresses handed to moveMember.
RowArgs == 0..MaxArg

SlotArgs == {0 - 1, 0, FarSlot}

\* How an event ended: "none", or the error the handler threw.
Outcome(ok) == IF ok THEN "none" ELSE "TypeError"

\* The record kept of an event: the handler, the error it ended with, for
\* moveMember the two addresses (row, index) it was called with, whether both
\* named existing slots and whether they were the same, for setRowCount the
\* text that was typed, and for generateMembers whether the Grid it found
\* had just been changed by a moveMember.
Event(op, error, from, to, inRange) ==
    [op |-> op, error |-> error, from |-> from, to |-> to,
     inRange |-> inRange, same |-> (from = to), text |-> <<>>,
     afterSwap |-> FALSE]

\* The event before this one was a moveMember that exchanged two existing
\* slots of different content.
JustSwapped(grid, event) ==
    /\ event.op = "moveMember"
    /\ event.inRange
    /\ grid[event.from[1] + 1][event.from[2] + 1]
           # grid[event.to[1] + 1][event.to[2] + 1]

NoAddress == <<0, 0>>

\* The arguments and the two locals (fromMember, toMember) of the moveMember
\* updater while no updater is running.
NoCall ==
    [fromRow |-> 0, fromIndex |-> 0, toRow |-> 0, toIndex |-> 0,
     fromMember |-> Undef, toMember |-> Undef]

(***************************************************************************)
(* The state machine.                                                      *)
(***************************************************************************)
Init ==
    /\ layoutMode = "auto"
    /\ counts = InitialCounts
    /\ rowCount = 3
    /\ rows = <<>>
    /\ build = 0
    /\ roster = <<>>
    /\ last = Event("init", "none", NoAddress, NoAddress, FALSE)
    /\ swapsInRange = TRUE
    /\ steps = 0
    /\ pc = "idle"
    /\ work = <<>>
    /\ call = NoCall

\* onChange of a count input.
setCounts(part, text) ==
    /\ steps < MaxSteps
    /\ counts' = [counts EXCEPT ![part] = text]
    /\ steps' = steps + 1
    /\ last' = Event("setCounts", "none", NoAddress, NoAddress, FALSE)
    /\ UNCHANGED <<layoutMode, rowCount, rows, build, roster, swapsInRange>>
    /\ UNCHANGED <<pc, work, call>>

\* Mutant of setRowCount: the parsed value is stored without Math.max.
setRowCountUnclamped(text) ==
    /\ steps < MaxSteps
    /\ rowCount' = OrElse(parseInt(text), 1)
    /\ steps' = steps + 1
    /\ last' = [Event("setRowCount", "none", NoAddress, NoAddress, FALSE)
                   EXCEPT !.text = text]
    /\ UNCHANGED <<layoutMode, counts, rows, build, roster, swapsInRange>>
    /\ UNCHANGED <<pc, work, call>>

\* onChange of the row-count input.
setRowCount(text) ==
    /\ steps < MaxSteps
    /\ rowCount' = MathMax(1, OrElse(parseInt(text), 1))
    /\ steps' = steps + 1
    /\ last' = [Event("setRowCount", "none", NoAddress, NoAddress, FALSE)
                   EXCEPT !.text = text]
    /\ UNCHANGED <<layoutMode, counts, rows, build, roster, swapsInRange>>
    /\ UNCHANGED <<pc, work, call>>

\* Mutant of setLayoutMode: choosing a policy also rebuilds the Grid.
setLayoutModeRebuilding(mode) ==
    /\ steps < MaxSteps
    /\ layoutMode' = mode
    /\ steps' = steps + 1
    /\ last' = Event("setLayoutMode", "none", NoAddress, NoAddress, FALSE)
    /\ rows' = LET g == Generate(counts, rowCount, mode, build)
               IN  IF g.ok THEN g.rows ELSE rows
    /\ UNCHANGED <<counts, rowCount, build, roster, swapsInRange>>
    /\ UNCHANGED <<pc, work, call>>

\* onChange of the policy selector.
setLayoutMode(mode) ==
    /\ steps < MaxSteps
    /\ layoutMode' = mode
    /\ steps' = steps + 1
    /\ last' = Event("setLayoutMode", "none", NoAddress, NoAddress, FALSE)
    /\ UNCHANGED <<counts, rowCount, rows, build, roster, swapsInRange>>
    /\ UNCHANGED <<pc, work, call>>

\* Mutant of generateMembers: a Grid that is already there is kept.
generateMembersKeepingGrid ==
    /\ steps < MaxSteps
    /\ LET g == Generate(counts, rowCount, layoutMode, build)
       IN  /\ rows' = IF g.ok /\ rows = <<>> THEN g.rows ELSE rows
           /\ last' = [Event("generateMembers", Outcome(g.ok),
                             NoAddress, NoAddress, FALSE)
                          EXCEPT !.afterSwap = JustSwapped(rows, last)]
    /\ roster' = BuildRoster(counts, build)
    /\ build' = build + 1
    /\ steps' = steps + 1
    /\ UNCHANGED <<layoutMode, counts, rowCount, swapsInRange>>
    /\ UNCHANGED <<pc, work, call>>

\* onClick of the regenerate button.  When flatInsert throws, the handler is
\* left before setRows and the Grid stays as it was.
generateMembers ==
    /\ steps < MaxSteps
    /\ LET g == Generate(counts, rowCount, layoutMode, build)
       IN  /\ rows' = IF g.ok THEN g.rows ELSE rows
           /\ last' = [Event("generateMembers", Outcome(g.ok),
                             NoAddress, NoAddress, FALSE)
                          EXCEPT !.afterSwap = JustSwapped(rows, last)]
    /\ roster' = BuildRoster(counts, build)
    /\ build' = build + 1
    /\ steps' = steps + 1
    /\ UNCHANGED <<layoutMode, counts, rowCount, swapsInRange>>
    /\ UNCHANGED <<pc, work, call>>

\* moveMember(fromRow, fromIndex, toRow, toIndex).  When the updater throws,
\* no new Grid is published.
moveMember(fromRow, fromIndex, toRow, toIndex) ==
    /\ steps < MaxSteps
    /\ LET u == moveMemberUpdate(rows, fromRow, fromIndex, toRow, toIndex)
           inR == InRange(rows, fromRow, fromIndex) /\ InRange(rows, toRow, toIndex)
       IN  /\ rows' = u.rows
           /\ last' = Event("moveMember", Outcome(u.ok),
                            <<fromRow, fromIndex>>, <<toRow, toIndex>>, inR)
           /\ swapsInRange' = (swapsInRange /\ inR)
    /\ steps' = steps + 1
    /\ UNCHANGED <<layoutMode, counts, rowCount, build, roster>>
    /\ UNCHANGED <<pc, work, call>>

Next ==
    \/ \E part \in Part, text \in CountTexts : setCounts(part, text)
    \/ \E text \in RowTexts : setRowCount(text)
    \/ \E mode \in LayoutModes : setLayoutMode(mode)
    \/ generateMembers
    \/ \E fr, tr \in RowArgs, fi, ti \in SlotArgs : moveMember(fr, fi, tr, ti)

Spec == Init /\ [][Next]_vars

(***************************************************************************)
(* The two Grid-writing handlers line by line.  A handler runs to          *)
(* completion before the next event is taken (one JavaScript thread), so   *)
(* an event starts only when pc = "idle".  `rows` is the value React holds *)
(* and renders; `work` is the handler's private newRows.                   *)
(***************************************************************************)
\* Lines 177-179 of the updater: newRows = prev.map((row) => [...row]) and
\* the two reads.  A read in a row that does not exist throws.
moveMemberRead(fromRow, fromIndex, toRow, toIndex) ==
    /\ pc = "idle"
    /\ steps < MaxStepEvents
    /\ steps' = steps + 1
    /\ IF ~HasRow(rows, fromRow) \/ ~HasRow(rows, toRow)
       THEN /\ pc' = "idle"
            /\ work' = <<>>
            /\ call' = NoCall
            /\ last' = Event("moveMember", "TypeError",
                             <<fromRow, fromIndex>>, <<toRow, toIndex>>, FALSE)
            /\ swapsInRange' = FALSE
       ELSE /\ pc' = "line180"
            /\ work' = rows
            /\ call' = [fromRow |-> fromRow, fromIndex |-> fromIndex,
                        toRow |-> toRow, toIndex |-> toIndex,
                        fromMember |-> ArrayGet(rows[fromRow + 1], fromIndex),
                        toMember |-> ArrayGet(rows[toRow + 1], toIndex)]
            /\ UNCHANGED <<last, swapsInRange>>
    /\ UNCHANGED <<layoutMode, counts, rowCount, rows, build, roster>>

\* Mutant of moveMemberWriteFrom: newRows is prev itself (no copy), so the
\* write lands in the Grid that React holds.
moveMemberWriteFromInPlace ==
    /\ pc = "line180"
    /\ work' = [work EXCEPT
                    ![call.fromRow + 1] = ArraySet(@, call.fromIndex, call.toMember)]
    /\ rows' = work'
    /\ pc' = "line181"
    /\ UNCHANGED <<layoutMode, counts, rowCount, build, roster, last,
                   swapsInRange, steps, call>>

\* Line 180: newRows[fromRow][fromIndex] = toMember.
moveMemberWriteFrom ==
    /\ pc = "line180"
    /\ work' = [work EXCEPT
                    ![call.fromRow + 1] = ArraySet(@, call.fromIndex, call.toMember)]
    /\ pc' = "line181"
    /\ UNCHANGED <<layoutMode, counts, rowCount, rows, build, roster, last,
                   swapsInRange, steps, call>>

\* Line 181: newRows[toRow][toIndex] = fromMember.
moveMemberWriteTo ==
    /\ pc = "line181"
    /\ work' = [work EXCEPT
                    ![call.toRow + 1] = ArraySet(@, call.toIndex, call.fromMember)]
    /\ pc' = "line182"
    /\ UNCHANGED <<layoutMode, counts, rowCount, rows, build, roster, last,
                   swapsInRange, steps, call>>

\* Line 182: return newRows; React stores the returned Grid.
moveMemberReturn ==
    /\ pc = "line182"
    /\ rows' = work
    /\ pc' = "idle"
    /\ work' = <<>>
    /\ call' = NoCall
    /\ LET inR == /\ InRange(rows, call.fromRow, call.fromIndex)
                  /\ InRange(rows, call.toRow, call.toIndex)
       IN  /\ last' = Event("moveMember", "none",
                            <<call.fromRow, call.fromIndex>>,
                            <<call.toRow, call.toIndex>>, inR)
           /\ swapsInRange' = (swapsInRange /\ inR)
    /\ UNCHANGED <<layoutMode, counts, rowCount, build, roster, steps>>

\* Lines 114-157: the roster and the distribution into newRows.  When
\* flatInsert throws, the handler ends here.
generateMembersDistribute ==
    /\ pc = "idle"
    /\ steps < MaxStepEvents
    /\ steps' = steps + 1
    /\ roster' = BuildRoster(counts, build)
    /\ build' = build + 1
    /\ LET raw == Distribute(counts, rowCount, layoutMode, build)
       IN  IF raw.ok
           THEN /\ pc' = "line159"
                /\ work' = raw.rows
                /\ UNCHANGED last
           ELSE /\ pc' = "idle"
                /\ work' = <<>>
                /\ last' = Event("generateMembers", "TypeError",
                                 NoAddress, NoAddress, FALSE)
    /\ UNCHANGED <<layoutMode, counts, rowCount, rows, swapsInRange, call>>

\* Lines 159-170: balancedRows, a new array built from newRows.
generateMembersBalance ==
    /\ pc = "line159"
    /\ work' = balancedRows(work)
    /\ pc' = "line172"
    /\ UNCHANGED <<layoutMode, counts, rowCount, rows, build, roster, last,
                   swapsInRange, steps, call>>

\* Line 172: setRows(balancedRows).
generateMembersSetRows ==
    /\ pc = "line172"
    /\ rows' = work
    /\ pc' = "idle"
    /\ work' = <<>>
    /\ last' = Event("generateMembers", "none", NoAddress, NoAddress, FALSE)
    /\ UNCHANGED <<layoutMode, counts, rowCount, build, roster,
                   swapsInRange, steps, call>>

\* An edit of the configuration, taken between two handlers.
BetweenEvents == pc = "idle" /\ steps < MaxStepEvents

StepNext ==
    \/ \E part \in Part, text \in CountTexts :
           BetweenEvents /\ setCounts(part, text)
    \/ \E text \in RowTexts : BetweenEvents /\ setRowCount(text)
    \/ \E mode \in LayoutModes : BetweenEvents /\ setLayoutMode(mode)
    \/ generateMembersDistribute
    \/ generateMembersBalance
    \/ generateMembersSetRows
    \/ \E fr, tr \in RowArgs, fi, ti \in SlotArgs : moveMemberRead(fr, fi, tr, ti)
    \/ moveMemberWriteFrom
    \/ moveMemberWriteTo
    \/ moveMemberReturn

StepSpec == Init /\ [][StepNext]_vars

(***************************************************************************)
(* Vocabulary of the properties.                                           *)
(***************************************************************************)
\* The slots of a Grid, as (row, index) pairs of sequence positions.
Slots(grid) ==
    UNION {{<<r, i>> : i \in 1..Len(grid[r])} : r \in 1..Len(grid)}

MemberSlots(grid) == {p \in Slots(grid) : IsMember(grid[p[1]][p[2]])}

MembersOf(grid) == {grid[p[1]][p[2]] : p \in MemberSlots(grid)}

RosterSet == {roster[k] : k \in 1..Len(roster)}

RowLengths(grid) == [r \in 1..Len(grid) |-> Len(grid[r])]

RowsEqual(grid) ==
    \A r1, r2 \in 1..Len(grid) : Len(grid[r1]) = Len(grid[r2])

NoMemberTwice(grid) ==
    \A p, q \in MemberSlots(grid) :
        grid[p[1]][p[2]] = grid[q[1]][q[2]] => p = q

\* The policy names only rows that exist.
ValidCombination(R, mode) ==
    \/ mode = "auto" /\ R >= 1
    \/ mode = "condition1" /\ R >= 3
    \/ mode = "condition2" /\ R >= 4

\* The raw rows of the most recent generateMembers call, while the
\* configuration is still the one it read (last.op = "generateMembers").
LastRaw == Distribute(counts, rowCount, layoutMode, build - 1).rows

\* The largest raw row length, stated without the code's Math.max.
LargestRawLength ==
    CHOOSE n \in {Len(LastRaw[r]) : r \in 1..Len(LastRaw)} :
        \A r \in 1..Len(LastRaw) : Len(LastRaw[r]) <= n

TotalCount ==
    CountOf(counts["Soprano"]) + CountOf(counts["Alto"])
        + CountOf(counts["Tenor"]) + CountOf(counts["Bass"])

Regenerated == last.op = "generateMembers"

\* The content of the slot at a 0-based address (row, index) of a Grid.
At(grid, a) == grid[a[1] + 1][a[2] + 1]

\* The sequence position of a 0-based address.
Pos(a) == <<a[1] + 1, a[2] + 1>>

BothInRange(grid, a, b) ==
    InRange(grid, a[1], a[2]) /\ InRange(grid, b[1], b[2])

Swapped == last.op = "moveMember"

(***************************************************************************)
(* C1.  In every state reached by Regenerate calls and Swap calls with     *)
(* in-range addresses, all rows of the Grid have the same number of slots, *)
(* and a Swap with in-range addresses changes the length of no row.  (The  *)
(* formula asks it after every Regenerate call, not only those with a      *)
(* valid combination.)                                                     *)
(***************************************************************************)
C1_RowsStayEqual ==
    /\ [](swapsInRange => RowsEqual(rows))
    /\ [][(Swapped' /\ BothInRange(rows, last'.from, last'.to))
             => RowLengths(rows') = RowLengths(rows)]_vars

C1_Witness ==
    /\ swapsInRange
    /\ Swapped /\ last.inRange /\ ~last.same /\ last.error = "none"
    /\ Len(rows) >= 2
    /\ MemberSlots(rows) # {}

(***************************************************************************)
(* C2.  After Regenerate with a valid (row count, policy) combination the  *)
(* Grid has exactly rowCount rows and every row has exactly as many slots  *)
(* as the longest raw (pre-balancing) row.                                 *)
(***************************************************************************)
C2_ShapeOfGeneratedGrid ==
    (Regenerated /\ ValidCombination(rowCount, layoutMode)) =>
        /\ last.error = "none"
        /\ Len(rows) = rowCount
        /\ \A r \in 1..Len(rows) : Len(rows[r]) = LargestRawLength

\* A valid condition2 build whose raw rows differ in length.
C2_Witness ==
    /\ Regenerated /\ last.error = "none"
    /\ layoutMode = "condition2" /\ rowCount >= 4
    /\ \E r \in 1..Len(LastRaw) : Len(LastRaw[r]) < LargestRawLength

(***************************************************************************)
(* C3.  After Regenerate with a combination that names only existing rows, *)
(* the number of non-empty slots equals the roster size, which is the sum  *)
(* of the four normalized counts, and every roster member occupies exactly *)
(* one slot.                                                               *)
(***************************************************************************)
C3_MembersConserved ==
    (Regenerated /\ ValidCombination(rowCount, layoutMode)) =>
        /\ last.error = "none"
        /\ Len(roster) = TotalCount
        /\ Cardinality(MemberSlots(rows)) = TotalCount
        /\ \A k \in 1..Len(roster) :
               Cardinality({p \in Slots(rows) : rows[p[1]][p[2]] = roster[k]}) = 1

\* A build with members of every part, a count text that is not a plain
\* numeral among them, and padding in the Grid.
C3_Witness ==
    /\ Regenerated /\ last.error = "none"
    /\ ValidCombination(rowCount, layoutMode)
    /\ \E p \in Part : counts[p] \notin {InitialCounts[q] : q \in Part}
    /\ TotalCount > 0
    /\ Slots(rows) # MemberSlots(rows)

(***************************************************************************)
(* C4.  In every state reached by Regenerate and in-range Swap events,     *)
(* every non-empty slot holds a member of the roster built by the most     *)
(* recent Regenerate and no member is in two slots; the set of members in  *)
(* the Grid is the same before and after each in-range Swap.               *)
(***************************************************************************)
C4_MembersFromLatestRoster ==
    /\ [](swapsInRange =>
            (MembersOf(rows) \subseteq RosterSet /\ NoMemberTwice(rows)))
    /\ [][(Swapped' /\ BothInRange(rows, last'.from, last'.to))
             => MembersOf(rows') = MembersOf(rows)]_vars

(***************************************************************************)
(* C5.  Swap(a, b) with two in-range addresses succeeds, slot a afterwards *)
(* holds what b held, slot b holds what a held, and every other slot holds *)
(* what it held before.                                                    *)
(***************************************************************************)
C5_SwapExchanges ==
    [][(Swapped' /\ BothInRange(rows, last'.from, last'.to)) =>
          LET a == last'.from
              b == last'.to
          IN  /\ last'.error = "none"
              /\ RowLengths(rows') = RowLengths(rows)
              /\ At(rows', a) = At(rows, b)
              /\ At(rows', b) = At(rows, a)
              /\ \A p \in Slots(rows) \ {Pos(a), Pos(b)} :
                     rows'[p[1]][p[2]] = rows[p[1]][p[2]]]_vars

\* A Swap that exchanged a member with an empty slot.
C5_Witness ==
    /\ Swapped /\ last.inRange /\ ~last.same /\ last.error = "none"
    /\ IsMember(At(rows, last.from))
    /\ At(rows, last.to) = Null

(***************************************************************************)
(* C6.  Swap is an involution: after Swap(a, b) with valid addresses       *)
(* a # b, applying Swap(a, b) again yields the Grid from before the first  *)
(* Swap.                                                                   *)
(***************************************************************************)
C6_SwapInvolution ==
    [][(Swapped' /\ BothInRange(rows, last'.from, last'.to)
            /\ last'.from # last'.to) =>
          LET a == last'.from
              b == last'.to
              again == moveMemberUpdate(rows', a[1], a[2], b[1], b[2])
          IN  again.ok /\ again.rows = rows]_vars

\* A Swap of two slots in one row that held different members.
C6_Witness ==
    /\ Swapped /\ last.inRange /\ ~last.same /\ last.error = "none"
    /\ last.from[1] = last.to[1]
    /\ IsMember(At(rows, last.from)) /\ IsMember(At(rows, last.to))
    /\ At(rows, last.from) # At(rows, last.to)

(***************************************************************************)
(* C7.  Swap(a, a) with a valid address a leaves every slot of the Grid as *)
(* it was.                                                                 *)
(***************************************************************************)
C7_SwapWithItself ==
    [][(Swapped' /\ last'.from = last'.to
            /\ InRange(rows, last'.from[1], last'.from[2])) =>
          (last'.error = "none" /\ rows' = rows)]_vars

C7_Witness ==
    /\ Swapped /\ last.same /\ last.inRange /\ last.error = "none"
    /\ IsMember(At(rows, last.from))

(***************************************************************************)
(* C8.  Swap with an out-of-range address, in the origin or the            *)
(* destination, is rejected entirely: the Grid after the call equals the   *)
(* Grid before it.                                                         *)
(***************************************************************************)
C8_OutOfRangeSwapRejected ==
    [][(Swapped' /\ ~BothInRange(rows, last'.from, last'.to))
          => rows' = rows]_vars

(***************************************************************************)
(* C9.  Regenerate with a policy / row-count mismatch never indexes a row  *)
(* that does not exist: it either rejects the combination with a           *)
(* configuration error, or places every roster member in an existing row.  *)
(***************************************************************************)
C9_MismatchHandled ==
    (Regenerated /\ ~ValidCombination(rowCount, layoutMode)) =>
        \/ last.error = "ConfigurationError"
        \/ /\ last.error = "none"
           /\ Len(rows) = rowCount
           /\ RosterSet \subseteq MembersOf(rows)

(***************************************************************************)
(* C10.  Regenerate always succeeds: for every configuration it completes  *)
(* and replaces the Grid with a Grid built from the configuration.         *)
(***************************************************************************)
C10_RegenerateSucceeds ==
    Regenerated =>
        /\ last.error = "none"
        /\ Len(rows) = rowCount
        /\ MembersOf(rows) = RosterSet

(***************************************************************************)
(* Vocabulary of the placement properties.                                 *)
(***************************************************************************)
\* The elements of seq at positions first, first + step, first + 2 step, ...
\* (1-based), in that order.
EveryNth(seq, first, step) ==
    LET n == IF Len(seq) < first THEN 0 ELSE ((Len(seq) - first) \div step) + 1
    IN  [j \in 1..n |-> seq[first + (j - 1) * step]]

\* The members of a row of the Grid, in slot order, without the empty slots.
MembersInOrder(row) == SelectSeq(row, IsMember)

PartsOf(seq) == {seq[k].part : k \in 1..Len(seq)}

PartRank(p) == CHOOSE k \in 1..Len(parts) : parts[k] = p

\* The roster is in category order: Soprano, Alto, Tenor, Bass.
RosterInPartOrder ==
    \A i, j \in 1..Len(roster) :
        i < j => PartRank(roster[i].part) <= PartRank(roster[j].part)

(***************************************************************************)
(* C11.  Under the auto policy with R rows, the member at 0-based position *)
(* i of the concatenation Soprano, Alto, Tenor, Bass is placed in row      *)
(* i mod R, and the members of a row appear in increasing order of their   *)
(* position, in the raw rows and in the Grid.                              *)
(***************************************************************************)
C11_AutoRoundRobin ==
    (Regenerated /\ layoutMode = "auto") =>
        /\ last.error = "none"
        /\ RosterInPartOrder
        /\ Len(LastRaw) = rowCount
        /\ \A r \in 1..rowCount :
               /\ LastRaw[r] = EveryNth(roster, r, rowCount)
               /\ MembersInOrder(rows[r]) = EveryNth(roster, r, rowCount)

\* An auto build over two rows with members of all four parts.
C11_Witness ==
    /\ Regenerated /\ layoutMode = "auto" /\ last.error = "none"
    /\ rowCount = 2
    /\ PartsOf(roster) = Part

(***************************************************************************)
(* C12.  Under condition1 (k = 2, R >= 3) and condition2 (k = 3, R >= 4)   *)
(* the member at position p of the concatenation Soprano, Alto is placed   *)
(* in row p mod k, every Tenor and Bass is placed in row k in              *)
(* concatenation order, rows 0..k-1 hold no Tenor or Bass, row k holds no  *)
(* Soprano or Alto, and every row after row k holds only empty slots.      *)
(***************************************************************************)
IsHighVoice(m) == m.part \in {"Soprano", "Alto"}

IsLowVoice(m) == m.part \in {"Tenor", "Bass"}

GroupRows == IF layoutMode = "condition1" THEN 2 ELSE 3

C12_ConditionPlacement ==
    (Regenerated /\ layoutMode \in {"condition1", "condition2"}
        /\ rowCount >= GroupRows + 1) =>
        LET k == GroupRows
            X == SelectSeq(roster, IsHighVoice)
            Y == SelectSeq(roster, IsLowVoice)
        IN  /\ last.error = "none"
            /\ RosterInPartOrder
            /\ \A r \in 1..k : MembersInOrder(rows[r]) = EveryNth(X, r, k)
            /\ MembersInOrder(rows[k + 1]) = Y
            /\ \A r \in (k + 2)..Len(rows) :
                   \A i \in 1..Len(rows[r]) : rows[r][i] = Null

\* A condition1 build with all four parts and a row after the low-voice row.
C12_Witness ==
    /\ Regenerated /\ layoutMode = "condition1" /\ last.error = "none"
    /\ rowCount = 4
    /\ PartsOf(roster) = Part
    /\ Len(rows[4]) > 0

(***************************************************************************)
(* C13.  Balancing turns each raw row of length n into exactly             *)
(* floor((maxLength - n) / 2) empty slots, then the row's members in their *)
(* raw order with no empty slot between them, then the remaining           *)
(* (maxLength - n) - padLeft empty slots; so padLeft <= padRight <=        *)
(* padLeft + 1, the extra empty slot of an odd difference being on the     *)
(* right.                                                                  *)
(***************************************************************************)
\* The number of empty slots before the first member of a row (the whole
\* row when it holds no member).
LeadingNulls(row) ==
    Cardinality({i \in 1..Len(row) : \A j \in 1..i : row[j] = Null})

\* The number of empty slots after the last member of a row.
TrailingNulls(row) ==
    Cardinality({i \in 1..Len(row) : \A j \in i..Len(row) : row[j] = Null})

C13_SymmetricPadding ==
    (Regenerated /\ last.error = "none") =>
        \A r \in 1..Len(rows) :
            LET n == Len(LastRaw[r])
                d == LargestRawLength - n
                left == d \div 2
                right == d - left
            IN  /\ Len(rows[r]) = left + n + right
                /\ \A i \in 1..left : rows[r][i] = Null
                /\ \A i \in 1..n : rows[r][left + i] = LastRaw[r][i]
                /\ \A i \in 1..right : rows[r][left + n + i] = Null
                /\ left <= right /\ right <= left + 1
                /\ n > 0 => /\ LeadingNulls(rows[r]) = left
                            /\ TrailingNulls(rows[r]) = right

\* A build with a row padded on both sides by an odd difference.
C13_Witness ==
    /\ Regenerated /\ last.error = "none"
    /\ \E r \in 1..Len(rows) :
           /\ Len(LastRaw[r]) > 0
           /\ (LargestRawLength - Len(LastRaw[r])) % 2 = 1
           /\ LeadingNulls(rows[r]) >= 1
           /\ TrailingNulls(rows[r]) = LeadingNulls(rows[r]) + 1

(***************************************************************************)
(* C14.  For every non-negative count n of a category, the roster built by *)
(* Regenerate has exactly n members of that category, labelled             *)
(* <Initial>0 .. <Initial>(n-1) in creation order, each with that category *)
(* and with an identifier distinct from every other member of the same     *)
(* build.                                                                  *)
(***************************************************************************)
InitialOf(p) ==
    CASE p = "Soprano" -> "S" [] p = "Alto" -> "A"
      [] p = "Tenor" -> "T" [] p = "Bass" -> "B"

\* The members of one category, in roster order.
RosterOf(p) == LET OfPart(m) == m.part = p IN SelectSeq(roster, OfPart)

C14_RosterPerCategory ==
    Regenerated =>
        /\ \A p \in Part :
               LET c == parseInt(counts[p])
               IN  (~c.nan /\ c.val >= 0) =>
                       /\ Len(RosterOf(p)) = c.val
                       /\ \A j \in 1..Len(RosterOf(p)) :
                              /\ RosterOf(p)[j].name = <<InitialOf(p), j - 1>>
                              /\ RosterOf(p)[j].part = p
        /\ \A i, j \in 1..Len(roster) : i # j => roster[i].id # roster[j].id

\* A build after a count was edited to 2, beside larger initial counts.
C14_Witness ==
    /\ Regenerated
    /\ \E p \in Part : counts[p] = <<"2">> /\ Len(RosterOf(p)) = 2
    /\ \E p \in Part : Len(RosterOf(p)) = 10

(***************************************************************************)
(* C15.  A category count that is malformed, non-numeric, empty or         *)
(* negative is treated as zero by Regenerate: that category contributes no *)
(* member to the roster or the Grid, and the build proceeds normally for   *)
(* the other categories.                                                   *)
(***************************************************************************)
\* A well-formed count: a non-empty text of decimal digits only.
IsCountNumeral(text) ==
    /\ text # <<>>
    /\ \A k \in 1..Len(text) : text[k] \in DigitChars

C15_MalformedCountIsZero ==
    Regenerated =>
        \A p \in Part :
            ~IsCountNumeral(counts[p]) =>
                /\ RosterOf(p) = <<>>
                /\ last.error = "none" =>
                       \A m \in MembersOf(rows) : m.part # p

(***************************************************************************)
(* C16.  The configured row count is an integer >= 1 in every reachable    *)
(* state: any requested row count below 1 (zero, negative and non-numeric  *)
(* input included) is clamped to 1, so every Regenerate builds at least    *)
(* one row.                                                                *)
(***************************************************************************)
\* The typed text does not name an integer of at least 1.
RequestedBelowOne(text) ==
    ~(IsCountNumeral(text) /\ \E k \in 1..Len(text) : text[k] # "0")

C16_RowCountAtLeastOne ==
    /\ rowCount \in Nat /\ rowCount >= 1
    /\ (last.op = "setRowCount" /\ RequestedBelowOne(last.text)) => rowCount = 1
    /\ Regenerated => Len(LastRaw) >= 1
    /\ (Regenerated /\ last.error = "none") => Len(rows) >= 1

\* A negative row count was typed over the initial 3 and stored as 1.
C16_Witness ==
    /\ last.op = "setRowCount"
    /\ last.text = <<"-", "2">>
    /\ rowCount = 1

(***************************************************************************)
(* C17.  The Grid changes only on a Regenerate event or a Swap event:      *)
(* editing a category count, the row count or the placement policy leaves  *)
(* the Grid unchanged until the next Regenerate, and Swap leaves the       *)
(* counts, the row count and the policy unchanged.                         *)
(***************************************************************************)
EditEvents == {"setCounts", "setRowCount", "setLayoutMode"}

C17_GridChangesOnlyOnRegenerateOrSwap ==
    [][ /\ rows' # rows => last'.op \in {"generateMembers", "moveMember"}
        /\ last'.op \in EditEvents => rows' = rows
        /\ last'.op = "moveMember" =>
               /\ counts' = counts
               /\ rowCount' = rowCount
               /\ layoutMode' = layoutMode ]_vars

\* After an edit the Grid still has the shape of the configuration it was
\* built from, which is no longer the current one.
C17_Witness ==
    /\ last.op \in EditEvents
    /\ rows # <<>>
    /\ \/ Len(rows) # rowCount
       \/ Cardinality(MembersOf(rows)) # TotalCount

(***************************************************************************)
(* C18.  Regenerate and Swap each publish one complete replacement Grid:   *)
(* an observer of the current Grid sees either the Grid from before the    *)
(* event or the Grid from after it, never a Grid in which only one of the  *)
(* two swapped slots has been written or in which rows are distributed but *)
(* not yet balanced; the previous Grid value is not modified by Swap.      *)
(* Checked on the line-by-line specification StepSpec.                     *)
(***************************************************************************)
\* The complete Grid the running handler is to publish.
CompleteGrid ==
    IF pc = "line182"
    THEN moveMemberUpdate(rows, call.fromRow, call.fromIndex,
                          call.toRow, call.toIndex).rows
    ELSE Generate(counts, rowCount, layoutMode, build - 1).rows

C18_AtomicPublication ==
    [][ /\ pc' # "idle" => rows' = rows
        /\ rows' # rows =>
               /\ pc \in {"line172", "line182"}
               /\ pc' = "idle"
               /\ rows' = CompleteGrid ]_vars

\* The updater has written the first of two different in-range slots into
\* its copy, and the Grid that observers read still holds both as they were.
C18_Witness ==
    /\ pc = "line181"
    /\ InRange(rows, call.fromRow, call.fromIndex)
    /\ InRange(rows, call.toRow, call.toIndex)
    /\ call.fromMember # call.toMember
    /\ work[call.fromRow + 1][call.fromIndex + 1] = call.toMember
    /\ work[call.toRow + 1][call.toIndex + 1] = call.toMember
    /\ rows[call.fromRow + 1][call.fromIndex + 1] = call.fromMember
    /\ rows[call.toRow + 1][call.toIndex + 1] = call.toMember

(***************************************************************************)
(* C19.  The Grid produced by Regenerate depends only on the configuration *)
(* at the time of the call (counts, row count, policy), not on the         *)
(* previous Grid: any Swaps applied since the last Regenerate are          *)
(* discarded, and two Regenerate calls with the same configuration produce *)
(* Grids with the same member labels and categories in the same slots.     *)
(***************************************************************************)
\* A slot value without its identifier.
LabelOf(v) == IF IsMember(v) THEN [name |-> v.name, part |-> v.part] ELSE v

LabelsOf(grid) ==
    [r \in 1..Len(grid) |-> [i \in 1..Len(grid[r]) |-> LabelOf(grid[r][i])]]

\* The labels of the Grid that the first generateMembers call of a run would
\* publish for a configuration.
LabelsFor(cnts, R, mode) == LabelsOf(Generate(cnts, R, mode, 0).rows)

C19_GridFromConfigurationOnly ==
    (Regenerated /\ last.error = "none") =>
        LabelsOf(rows) = LabelsFor(counts, rowCount, layoutMode)

\* A second build with the same configuration, right after a Swap that had
\* exchanged two different slots of the first build's Grid.
C19_Witness ==
    /\ Regenerated /\ last.error = "none"
    /\ last.afterSwap
    /\ build = 2
    /\ MembersOf(rows) # {}

(***************************************************************************)
(* C20.  Under the auto policy, raw row lengths differ by at most one, so  *)
(* the Grid produced by Regenerate has at most one empty slot per row, and *)
(* any empty slot is the last slot of its row (padLeft is always 0); rows  *)
(* with lower index are never shorter than rows with higher index before   *)
(* balancing.                                                              *)
(***************************************************************************)
EmptySlotsOf(row) == {i \in 1..Len(row) : ~IsMember(row[i])}

C20_AutoNearlyEven ==
    (Regenerated /\ layoutMode = "auto") =>
        /\ last.error = "none"
        /\ \A r, q \in 1..Len(LastRaw) :
               /\ Len(LastRaw[r]) - Len(LastRaw[q]) <= 1
               /\ r < q => Len(LastRaw[r]) >= Len(LastRaw[q])
        /\ \A r \in 1..Len(rows) :
               /\ Cardinality(EmptySlotsOf(rows[r])) <= 1
               /\ EmptySlotsOf(rows[r]) \subseteq {Len(rows[r])}
               /\ \A i \in EmptySlotsOf(rows[r]) : rows[r][i] = Null

\* An auto build whose members do not divide evenly over the rows: a full
\* first row and a last row ending in its one empty slot.
C20_Witness ==
    /\ Regenerated /\ layoutMode = "auto" /\ last.error = "none"
    /\ Len(rows) >= 2
    /\ EmptySlotsOf(rows[1]) = {}
    /\ Len(rows[1]) >= 2
    /\ EmptySlotsOf(rows[Len(rows)]) = {Len(rows[1])}

====
